---- MODULE Spec2Model ----
(***************************************************************************)
(* A model of the audit record store of src/MCP/audit:                     *)
(*   - the two date normalizers of audit_operations_store.py, computed     *)
(*     character by character on strings (sequences of one-character      *)
(*     strings), with Python's datetime arithmetic behind the bare-date    *)
(*     upper bound;                                                        *)
(*   - the seven operations of AuditOperationsStore, each building the     *)
(*     parameterized query it hands to container.query_items;              *)
(*   - the lazily initialized client of the store shared by concurrent     *)
(*     asyncio tasks;                                                      *)
(*   - the hybrid search of AuditPolicySearchIndex in                      *)
(*     src/data_generator/search_index.py, with its embedder and its       *)
(*     index as collaborators that may fail.                               *)
(* Five specifications share the definitions:                              *)
(*   SpecNorm   the normalizers applied to one input,                      *)
(*   SpecQuery  one store operation on a wide range of arguments,          *)
(*   Spec       concurrent operations on one AuditOperationsStore,         *)
(*   SpecSearch calls of AuditPolicySearchIndex.search on one wrapper,     *)
(*   SpecComponents  a process that runs the store or the search index.    *)
(***************************************************************************)
EXTENDS Integers, Sequences, FiniteSets, TLC

VARIABLES
    d,            \* SpecNorm: the argument of the normalizers (Optional[str])
    start_iso,    \* SpecNorm: _normalize_start_iso(d)
    end_iso,      \* SpecNorm: _normalize_end_exclusive_iso(d)
    start_again,  \* SpecNorm: _normalize_start_iso applied to start_iso
    end_again,    \* SpecNorm: _normalize_end_exclusive_iso applied to end_iso
    call,         \* SpecQuery: the operation invoked and its arguments
    outcome,      \* SpecQuery: what the operation did up to query_items
    client,       \* Spec: self._client (0 is None, k the k-th CosmosClient)
    credential,   \* Spec: self._credential (0 is None, k the k-th credential)
    database,     \* Spec: self._database (0 is None, k the handle of client k)
    containers,   \* Spec: self._containers, name -> handle (absent names left out)
    task,         \* Spec: each asyncio task's position and what it holds
    made,         \* Spec: how many credentials, clients, handles were constructed
    index,        \* SpecSearch: the attributes of the AuditPolicySearchIndex
    searched,     \* SpecSearch: the call of search in progress or last ended
    history       \* SpecSearch: the calls begun, and whether the one before fell back

vars == <<d, start_iso, end_iso, start_again, end_again, call, outcome,
          client, credential, database, containers, task, made,
          index, searched, history>>

normVars == <<d, start_iso, end_iso, start_again, end_again>>
queryVars == <<call, outcome>>
storeVars == <<client, credential, database, containers, task, made>>
searchVars == <<index, searched, history>>

(***************************************************************************)
(* Strings.  A Python str is a sequence of one-character strings.          *)
(***************************************************************************)
DigitChars == <<"0", "1", "2", "3", "4", "5", "6", "7", "8", "9">>

IsDigit(c) == \E i \in 1..10 : DigitChars[i] = c

DigitVal(c) == (CHOOSE i \in 1..10 : DigitChars[i] = c) - 1

\* f"{n:02d}" and f"{n:04d}" as datetime.isoformat renders its fields
Digits2(n) == <<DigitChars[((n \div 10) % 10) + 1], DigitChars[(n % 10) + 1]>>

Digits4(n) == <<DigitChars[((n \div 1000) % 10) + 1], DigitChars[((n \div 100) % 10) + 1],
                DigitChars[((n \div 10) % 10) + 1], DigitChars[(n % 10) + 1]>>

\* s[i:j] of Python with 1-based inclusive bounds
Slice(s, i, j) == [k \in 1..(j - i + 1) |-> s[i + k - 1]]

\* sub in s
StartsAt(s, sub, i) ==
    /\ i + Len(sub) - 1 <= Len(s)
    /\ \A k \in 1..Len(sub) : s[i + k - 1] = sub[k]

Contains(s, sub) == \E i \in 1..Len(s) : StartsAt(s, sub, i)

\* str.replace(old, new): every non-overlapping occurrence, left to right
RECURSIVE ReplaceFrom(_, _, _, _)
ReplaceFrom(s, old, new, i) ==
    IF i > Len(s) THEN <<>>
    ELSE IF StartsAt(s, old, i)
         THEN new \o ReplaceFrom(s, old, new, i + Len(old))
         ELSE <<s[i]>> \o ReplaceFrom(s, old, new, i + 1)

StrReplace(s, old, new) == ReplaceFrom(s, old, new, 1)

PlusZero == <<"+", "0", "0", ":", "0", "0">>
Zulu == <<"Z">>
Midnight == <<"T", "0", "0", ":", "0", "0", ":", "0", "0">>

(***************************************************************************)
(* Optional values and results.                                            *)
(***************************************************************************)
NoneStr == [k |-> "none", v |-> <<>>]
SomeStr(s) == [k |-> "str", v |-> s]
Raised(e) == [k |-> e, v |-> <<>>]
Unset == [k |-> "unset", v |-> <<>>]

\* Python truthiness of an Optional[str]: None and "" are falsy
Truthy(x) == x.k = "str" /\ Len(x.v) > 0

(***************************************************************************)
(* Python's datetime: the proleptic Gregorian calendar, years 1..9999.     *)
(***************************************************************************)
MINYEAR == 1
MAXYEAR == 9999

IsLeap(y) == (y % 4 = 0) /\ ((y % 100 # 0) \/ (y % 400 = 0))

DaysInMonth(y, m) ==
    IF m = 2 THEN (IF IsLeap(y) THEN 29 ELSE 28)
    ELSE IF m \in {4, 6, 9, 11} THEN 30 ELSE 31

ValidYMD(y, m, dd) ==
    /\ y >= MINYEAR /\ y <= MAXYEAR
    /\ m >= 1 /\ m <= 12
    /\ dd >= 1 /\ dd <= DaysInMonth(y, m)

\* datetime.fromisoformat on a date-only string "YYYY-MM-DD": the fields, or
\* ValueError.  (Only the extended calendar form is modelled; the inputs the
\* specifications draw are strings every CPython release treats alike.)
FromIsoFormat(s) ==
    IF /\ Len(s) = 10
       /\ s[5] = "-" /\ s[8] = "-"
       /\ \A i \in {1, 2, 3, 4, 6, 7, 9, 10} : IsDigit(s[i])
    THEN LET y == 1000 * DigitVal(s[1]) + 100 * DigitVal(s[2])
                  + 10 * DigitVal(s[3]) + DigitVal(s[4])
             m == 10 * DigitVal(s[6]) + DigitVal(s[7])
             dd == 10 * DigitVal(s[9]) + DigitVal(s[10])
         IN IF ValidYMD(y, m, dd)
            THEN [ok |-> TRUE, y |-> y, m |-> m, d |-> dd]
            ELSE [ok |-> FALSE, y |-> 0, m |-> 0, d |-> 0]
    ELSE [ok |-> FALSE, y |-> 0, m |-> 0, d |-> 0]

\* PlusOneDay with February always 28 days long
PlusOneDay_no_leap(t) ==
    IF t.d < (IF t.m = 2 THEN 28 ELSE DaysInMonth(t.y, t.m))
    THEN [ok |-> TRUE, y |-> t.y, m |-> t.m, d |-> t.d + 1]
    ELSE IF t.m < 12 THEN [ok |-> TRUE, y |-> t.y, m |-> t.m + 1, d |-> 1]
    ELSE IF t.y < MAXYEAR THEN [ok |-> TRUE, y |-> t.y + 1, m |-> 1, d |-> 1]
    ELSE [ok |-> FALSE, y |-> 0, m |-> 0, d |-> 0]

\* dt + timedelta(days=1) on a midnight datetime: the next calendar day, or
\* OverflowError past datetime.max (year MAXYEAR)
PlusOneDay(t) ==
    IF t.d < DaysInMonth(t.y, t.m) THEN [ok |-> TRUE, y |-> t.y, m |-> t.m, d |-> t.d + 1]
    ELSE IF t.m < 12 THEN [ok |-> TRUE, y |-> t.y, m |-> t.m + 1, d |-> 1]
    ELSE IF t.y < MAXYEAR THEN [ok |-> TRUE, y |-> t.y + 1, m |-> 1, d |-> 1]
    ELSE [ok |-> FALSE, y |-> 0, m |-> 0, d |-> 0]

\* datetime.isoformat() of an aware UTC datetime at midnight, no microseconds
IsoFormatUtc(t) ==
    Digits4(t.y) \o <<"-">> \o Digits2(t.m) \o <<"-">> \o Digits2(t.d)
        \o Midnight \o PlusZero

(***************************************************************************)
(* audit_operations_store.py: the normalizers.                             *)
(***************************************************************************)
normalize_start_iso(x) ==
    IF ~Truthy(x) THEN NoneStr
    ELSE IF Contains(x.v, <<"T">>) THEN SomeStr(StrReplace(x.v, PlusZero, Zulu))
    ELSE SomeStr(x.v \o Midnight \o Zulu)

\* normalize_end_exclusive_iso returning a full timestamp untouched
normalize_end_exclusive_iso_keeps_offset(x) ==
    IF ~Truthy(x) THEN NoneStr
    ELSE IF Contains(x.v, <<"T">>) THEN SomeStr(x.v)
    ELSE LET parsed == FromIsoFormat(x.v)
         IN IF ~parsed.ok THEN Raised("ValueError")
            ELSE LET dt == PlusOneDay(parsed)
                 IN IF ~dt.ok THEN Raised("OverflowError")
                    ELSE SomeStr(StrReplace(IsoFormatUtc(dt), PlusZero, Zulu))

normalize_end_exclusive_iso(x) ==
    IF ~Truthy(x) THEN NoneStr
    ELSE IF Contains(x.v, <<"T">>) THEN SomeStr(StrReplace(x.v, PlusZero, Zulu))
    ELSE LET parsed == FromIsoFormat(x.v)
         IN IF ~parsed.ok THEN Raised("ValueError")
            ELSE LET dt == PlusOneDay(parsed)
                 IN IF ~dt.ok THEN Raised("OverflowError")
                    ELSE SomeStr(StrReplace(IsoFormatUtc(dt), PlusZero, Zulu))

(***************************************************************************)
(* The inputs the specifications draw.                                     *)
(***************************************************************************)
DateStr(y, m, dd) == Digits4(y) \o <<"-">> \o Digits2(m) \o <<"-">> \o Digits2(dd)

TimeStr(h, mi, s) == <<"T">> \o Digits2(h) \o <<":">> \o Digits2(mi) \o <<":">> \o Digits2(s)

\* years with every leap rule (1900 is not leap, 2000 and 2024 are) and both
\* ends of datetime's range
Years == {MINYEAR, 1900, 2000, 2024, 2025, MAXYEAR}

ValidBareDates ==
    {s \in {DateStr(y, m, dd) : y \in Years, m \in 1..12, dd \in 1..31} : FromIsoFormat(s).ok}

Offsets == {<<>>, Zulu, PlusZero,
            <<"+", "0", "5", ":", "3", "0">>, <<"-", "0", "8", ":", "0", "0">>}

StampDays == {<<2025, 9, 30>>, <<2024, 2, 29>>, <<2025, 12, 31>>}
StampTimes == {<<0, 0, 0>>, <<12, 30, 0>>, <<23, 59, 59>>}

FullTimestamps ==
    {DateStr(x[1], x[2], x[3]) \o TimeStr(t[1], t[2], t[3]) \o o :
        x \in StampDays, t \in StampTimes, o \in Offsets}

\* strings that are neither a calendar date nor a timestamp
Malformed ==
    { <<"a", "b", "c">>,
      <<"n", "o", "T">>,
      DateStr(2025, 2, 30),
      DateStr(2025, 13, 1),
      DateStr(2023, 2, 29),
      DateStr(0, 1, 1),
      <<"2", "0", "2", "5", "-", "9", "-", "3", "0">>,
      <<"2", "0", "2", "5", "/", "0", "9", "/", "3", "0">> }

NormInputs ==
    {NoneStr, SomeStr(<<>>)}
        \cup {SomeStr(s) : s \in ValidBareDates \cup FullTimestamps \cup Malformed}

(***************************************************************************)
(* SpecNorm: the normalizers applied to one input, then to their output.   *)
(***************************************************************************)
NormIdle ==
    /\ d = NoneStr
    /\ start_iso = Unset /\ end_iso = Unset
    /\ start_again = Unset /\ end_again = Unset

NormalizeStart ==
    /\ start_iso = Unset
    /\ start_iso' = normalize_start_iso(d)
    /\ UNCHANGED <<d, end_iso, start_again, end_again>>

NormalizeEnd ==
    /\ end_iso = Unset
    /\ end_iso' = normalize_end_exclusive_iso(d)
    /\ UNCHANGED <<d, start_iso, start_again, end_again>>

NormalizeStartAgain ==
    /\ start_iso.k \in {"str", "none"}
    /\ start_again = Unset
    /\ start_again' = normalize_start_iso(start_iso)
    /\ UNCHANGED <<d, start_iso, end_iso, end_again>>

NormalizeEndAgain ==
    /\ end_iso.k \in {"str", "none"}
    /\ end_again = Unset
    /\ end_again' = normalize_end_exclusive_iso(end_iso)
    /\ UNCHANGED <<d, start_iso, end_iso, start_again>>

(***************************************************************************)
(* Queries.  A query is what container.query_items receives: the SELECT    *)
(* head, the WHERE clauses in order, the OFFSET/LIMIT cap if the text has  *)
(* one, and the parameter list in order.                                   *)
(***************************************************************************)
NoneId == [k |-> "none", v |-> ""]
SomeId(x) == [k |-> "str", v |-> x]
NoneNum == [k |-> "none", v |-> 0]
SomeNum(n) == [k |-> "num", v |-> n]

\* truthiness of an Optional[str] identifier: None and "" are falsy
TruthyId(x) == x.k = "str" /\ x.v # ""

Clause(field, op, param) == [field |-> field, op |-> op, param |-> param]

IdValue(x) == [t |-> "id", id |-> x, s |-> <<>>, n |-> 0]
StrValue(x) == [t |-> "str", id |-> "", s |-> x, n |-> 0]
\* float(x): the same number as a float
NumValue(x) == [t |-> "num", id |-> "", s |-> <<>>, n |-> x]

Param(name, value) == [name |-> name, value |-> value]

NoCap == [k |-> "none", n |-> 0]
\* OFFSET 0 LIMIT {int(limit)}
LimitCap(limit) == [k |-> "limit", n |-> limit]

Query(container, select, where, params, cap) ==
    [container |-> container, select |-> select, where |-> where,
     params |-> params, cap |-> cap]

NoQuery == Query("", "", <<>>, <<>>, NoCap)

Sent(q) == [k |-> "sent", q |-> q]
Raises(e) == [k |-> e, q |-> NoQuery]

\* where.append(...) / params.append(...) under a condition
When(cond, x) == IF cond THEN <<x>> ELSE <<>>

EngagementClause == Clause("engagement_id", "=", "@engagement_id")

\* the four fixed-text operations: get_invoice, get_vendor, get_payment,
\* get_payments_for_invoice
KeyQuery(container, select, keyField, engagement_id, key) ==
    Query(container, select,
          <<EngagementClause, Clause(keyField, "=", "@" \o keyField)>>,
          <<Param("@engagement_id", IdValue(engagement_id)),
            Param("@" \o keyField, IdValue(key))>>,
          NoCap)

get_invoice(a) ==
    Sent(KeyQuery("invoices", "TOP 1 *", "invoice_id", a.engagement_id, a.key))

get_vendor(a) ==
    Sent(KeyQuery("vendors", "TOP 1 *", "vendor_id", a.engagement_id, a.key))

get_payment(a) ==
    Sent(KeyQuery("payments", "TOP 1 *", "payment_id", a.engagement_id, a.key))

get_payments_for_invoice(a) ==
    Sent(KeyQuery("payments", "*", "invoice_id", a.engagement_id, a.key))

\* DateWhere with an inclusive upper bound
DateWhere_inclusive_end(field, df, dt) ==
    When(Truthy(df), Clause(field, ">=", "@date_from"))
        \o When(Truthy(dt), Clause(field, "<=", "@date_to"))

\* the date clauses shared by query_invoices and query_payments
DateWhere(field, df, dt) ==
    When(Truthy(df), Clause(field, ">=", "@date_from"))
        \o When(Truthy(dt), Clause(field, "<", "@date_to"))

DateParams(df, dt) ==
    When(Truthy(df), Param("@date_from", StrValue(df.v)))
        \o When(Truthy(dt), Param("@date_to", StrValue(dt.v)))

\* InvoiceWhere with the amount clauses ahead of vendor_id and status
InvoiceWhere_amount_first(a, df, dt) ==
    <<EngagementClause>>
        \o DateWhere("invoice_date", df, dt)
        \o When(a.min_amount.k # "none", Clause("amount", ">=", "@min_amount"))
        \o When(a.max_amount.k # "none", Clause("amount", "<=", "@max_amount"))
        \o When(TruthyId(a.vendor_id), Clause("vendor_id", "=", "@vendor_id"))
        \o When(TruthyId(a.status), Clause("status", "=", "@status"))

InvoiceWhere(a, df, dt) ==
    <<EngagementClause>>
        \o DateWhere("invoice_date", df, dt)
        \o When(TruthyId(a.vendor_id), Clause("vendor_id", "=", "@vendor_id"))
        \o When(TruthyId(a.status), Clause("status", "=", "@status"))
        \o When(a.min_amount.k # "none", Clause("amount", ">=", "@min_amount"))
        \o When(a.max_amount.k # "none", Clause("amount", "<=", "@max_amount"))

\* InvoiceParams testing the amounts for truth ("if min_amount:"), so that 0
\* binds nothing
InvoiceParams_truthy_amount(a, df, dt) ==
    <<Param("@engagement_id", IdValue(a.engagement_id))>>
        \o DateParams(df, dt)
        \o When(TruthyId(a.vendor_id), Param("@vendor_id", IdValue(a.vendor_id.v)))
        \o When(TruthyId(a.status), Param("@status", IdValue(a.status.v)))
        \o When(a.min_amount.k # "none" /\ a.min_amount.v # 0,
                Param("@min_amount", NumValue(a.min_amount.v)))
        \o When(a.max_amount.k # "none" /\ a.max_amount.v # 0,
                Param("@max_amount", NumValue(a.max_amount.v)))

InvoiceParams(a, df, dt) ==
    <<Param("@engagement_id", IdValue(a.engagement_id))>>
        \o DateParams(df, dt)
        \o When(TruthyId(a.vendor_id), Param("@vendor_id", IdValue(a.vendor_id.v)))
        \o When(TruthyId(a.status), Param("@status", IdValue(a.status.v)))
        \o When(a.min_amount.k # "none", Param("@min_amount", NumValue(a.min_amount.v)))
        \o When(a.max_amount.k # "none", Param("@max_amount", NumValue(a.max_amount.v)))

query_invoices(a) ==
    LET df == normalize_start_iso(a.date_from)
        dt == normalize_end_exclusive_iso(a.date_to)
    IN IF dt.k \notin {"str", "none"} THEN Raises(dt.k)
       ELSE Sent(Query("invoices", "*", InvoiceWhere(a, df, dt),
                       InvoiceParams(a, df, dt), LimitCap(a.limit)))

PaymentWhere(a, df, dt) ==
    <<EngagementClause>>
        \o DateWhere("paid_at", df, dt)
        \o When(TruthyId(a.vendor_id), Clause("vendor_id", "=", "@vendor_id"))
        \o When(TruthyId(a.invoice_id), Clause("invoice_id", "=", "@invoice_id"))

PaymentParams(a, df, dt) ==
    <<Param("@engagement_id", IdValue(a.engagement_id))>>
        \o DateParams(df, dt)
        \o When(TruthyId(a.vendor_id), Param("@vendor_id", IdValue(a.vendor_id.v)))
        \o When(TruthyId(a.invoice_id), Param("@invoice_id", IdValue(a.invoice_id.v)))

query_payments(a) ==
    LET df == normalize_start_iso(a.date_from)
        dt == normalize_end_exclusive_iso(a.date_to)
    IN IF dt.k \notin {"str", "none"} THEN Raises(dt.k)
       ELSE Sent(Query("payments", "*", PaymentWhere(a, df, dt),
                       PaymentParams(a, df, dt), LimitCap(a.limit)))

\* query_vendors with the risk_tier clause ahead of the tenant clause
query_vendors_tenant_last(a) ==
    Sent(Query("vendors", "*",
               When(a.risk_tier # "", Clause("risk_tier", "=", "@risk_tier"))
                   \o <<EngagementClause>>,
               When(a.risk_tier # "", Param("@risk_tier", IdValue(a.risk_tier)))
                   \o <<Param("@engagement_id", IdValue(a.engagement_id))>>,
               LimitCap(a.limit)))

query_vendors(a) ==
    Sent(Query("vendors", "*",
               <<EngagementClause>>
                   \o When(a.risk_tier # "", Clause("risk_tier", "=", "@risk_tier")),
               <<Param("@engagement_id", IdValue(a.engagement_id))>>
                   \o When(a.risk_tier # "", Param("@risk_tier", IdValue(a.risk_tier))),
               LimitCap(a.limit)))

Operations == {"get_invoice", "get_vendor", "get_payment", "get_payments_for_invoice",
               "query_invoices", "query_payments", "query_vendors"}

\* the operation named op applied to the arguments a, up to query_items
Operate(op, a) ==
    CASE op = "get_invoice" -> get_invoice(a)
      [] op = "get_vendor" -> get_vendor(a)
      [] op = "get_payment" -> get_payment(a)
      [] op = "get_payments_for_invoice" -> get_payments_for_invoice(a)
      [] op = "query_invoices" -> query_invoices(a)
      [] op = "query_payments" -> query_payments(a)
      [] op = "query_vendors" -> query_vendors(a)

(***************************************************************************)
(* SpecQuery: one operation of AuditOperationsStore on an initialized      *)
(* store, from its call to the query it hands to query_items.              *)
(***************************************************************************)
Args(engagement_id, key, date_from, date_to, vendor_id, status, invoice_id, risk_tier, min_amount, max_amount, limit) ==
    [engagement_id |-> engagement_id, key |-> key,
     date_from |-> date_from, date_to |-> date_to,
     vendor_id |-> vendor_id, status |-> status, invoice_id |-> invoice_id,
     risk_tier |-> risk_tier, min_amount |-> min_amount, max_amount |-> max_amount,
     limit |-> limit]

\* limit: int = 200
DefaultLimit == 200

\* the defaults of the signatures: None, "" and 200
DefaultArgs(engagement_id) ==
    Args(engagement_id, "", NoneStr, NoneStr, NoneId, NoneId, NoneId, "",
         NoneNum, NoneNum, DefaultLimit)

Engagements == {"ENG-1", "ENG-2"}
Keys == {"K-1", "K-2"}
OptVendors == {NoneId, SomeId(""), SomeId("VEN-1000")}
OptStatuses == {NoneId, SomeId(""), SomeId("APPROVED")}
OptInvoices == {NoneId, SomeId(""), SomeId("INV-1")}
RiskTiers == {"", "HIGH"}
OptAmounts == {NoneNum, SomeNum(0), SomeNum(1000)}
Limits == {DefaultLimit, 50}

\* the dates a query is given: absent, empty, bare dates at every kind of
\* boundary, a timestamp of every offset form, and malformed text
QueryBareDates ==
    {DateStr(2025, 7, 1), DateStr(2025, 9, 30), DateStr(2024, 2, 28),
     DateStr(2024, 2, 29), DateStr(2025, 12, 31), DateStr(MAXYEAR, 12, 31)}

QueryTimestamps == {DateStr(2025, 9, 30) \o TimeStr(12, 30, 0) \o o : o \in Offsets}

QueryMalformed == {<<"a", "b", "c">>, <<"n", "o", "T">>, DateStr(2025, 2, 30)}

QueryDates ==
    {NoneStr, SomeStr(<<>>)}
        \cup {SomeStr(s) : s \in QueryBareDates \cup QueryTimestamps \cup QueryMalformed}

Idle == [op |-> "idle", args |-> DefaultArgs("")]
NoOutcome == [k |-> "none", q |-> NoQuery]

QueryIdle == call = Idle /\ outcome = NoOutcome

\* call op with the arguments a: everything the operation does before the
\* first item is awaited
Invoke(op, a) ==
    /\ call' = [op |-> op, args |-> a]
    /\ outcome' = Operate(op, a)

GetInvoice ==
    /\ call = Idle
    /\ \E e \in Engagements, key \in Keys :
        Invoke("get_invoice", [DefaultArgs(e) EXCEPT !.key = key])

GetVendor ==
    /\ call = Idle
    /\ \E e \in Engagements, key \in Keys :
        Invoke("get_vendor", [DefaultArgs(e) EXCEPT !.key = key])

GetPayment ==
    /\ call = Idle
    /\ \E e \in Engagements, key \in Keys :
        Invoke("get_payment", [DefaultArgs(e) EXCEPT !.key = key])

GetPaymentsForInvoice ==
    /\ call = Idle
    /\ \E e \in Engagements, key \in Keys :
        Invoke("get_payments_for_invoice", [DefaultArgs(e) EXCEPT !.key = key])

QueryInvoices ==
    /\ call = Idle
    /\ \E e \in Engagements, df \in QueryDates, dt \in QueryDates, v \in OptVendors,
       st \in OptStatuses, lo \in OptAmounts, hi \in OptAmounts, lim \in Limits :
        Invoke("query_invoices",
               Args(e, "", df, dt, v, st, NoneId, "", lo, hi, lim))

QueryPayments ==
    /\ call = Idle
    /\ \E e \in Engagements, df \in QueryDates, dt \in QueryDates, v \in OptVendors,
       inv \in OptInvoices, lim \in Limits :
        Invoke("query_payments",
               Args(e, "", df, dt, v, NoneId, inv, "", NoneNum, NoneNum, lim))

QueryVendors ==
    /\ call = Idle
    /\ \E e \in Engagements, r \in RiskTiers, lim \in Limits :
        Invoke("query_vendors",
               [DefaultArgs(e) EXCEPT !.risk_tier = r, !.limit = lim])

(***************************************************************************)
(* Spec: concurrent operations on one AuditOperationsStore.                *)
(***************************************************************************)
\* how many operations run at once, how many are started in all, and how
\* many records the store yields to one query
NumTasks == 2
MaxCalls == 2
MaxItems == 2

Tasks == 1..NumTasks

ContainerNames == {"invoices", "vendors", "payments"}

\* the operations app.py wraps as tools; query_vendors has no tool
Tools == Operations \ {"query_vendors"}

PointLookups == {"get_invoice", "get_vendor", "get_payment"}

IdleTask ==
    [pc |-> "idle", op |-> "idle", sent |-> NoQuery, queries |-> 0,
     client |-> 0, database |-> 0, container |-> 0,
     items |-> 0, error |-> "none", returned |-> "nothing", result |-> "nothing"]

StoreIdle ==
    /\ client = 0 /\ credential = 0 /\ database = 0
    /\ containers = [n \in ContainerNames |-> 0]
    /\ task = [t \in Tasks |-> IdleTask]
    /\ made = [credentials |-> 0, clients |-> 0, databases |-> 0,
               resolved |-> [n \in ContainerNames |-> 0], calls |-> 0]

\* the fields of the store object, as one value
Store == [client |-> client, credential |-> credential, database |-> database,
          containers |-> containers, made |-> made]

\* the steps of initialization that call out and may raise
Failures == {"none", "credential", "client", "database", "container"}

\* _ensure_client.  It awaits nothing, so it runs to its end, or to the
\* step that raises, without another task running in between.
ensure_client(st, fail) ==
    IF st.client # 0 THEN [st |-> st, err |-> "none"]
    ELSE IF fail = "credential" THEN [st |-> st, err |-> "CredentialError"]
    ELSE LET s1 == [st EXCEPT !.credential = st.made.credentials + 1,
                              !.made.credentials = @ + 1]
         IN IF fail = "client" THEN [st |-> s1, err |-> "ClientError"]
            ELSE LET s2 == [s1 EXCEPT !.client = s1.made.clients + 1,
                                      !.made.clients = @ + 1]
                 IN IF fail = "database" THEN [st |-> s2, err |-> "DatabaseError"]
                    ELSE [st |-> [s2 EXCEPT !.database = s2.client,
                                            !.made.databases = @ + 1],
                          err |-> "none"]

\* _get_container without the `name not in self._containers` test
get_container_uncached(st, name, fail) ==
    LET e == ensure_client(st, fail)
    IN IF e.err # "none" THEN [st |-> e.st, err |-> e.err, container |-> 0]
       ELSE IF e.st.database = 0
            THEN [st |-> e.st, err |-> "AttributeError", container |-> 0]
       ELSE IF fail = "container"
            THEN [st |-> [e.st EXCEPT !.made.resolved[name] = @ + 1],
                  err |-> "ContainerError", container |-> 0]
       ELSE LET h == 10 * e.st.database + e.st.made.resolved[name] + 1
            IN [st |-> [e.st EXCEPT !.containers[name] = h,
                                    !.made.resolved[name] = @ + 1],
                err |-> "none", container |-> h]

\* _get_container(name): the cached handle, or a new one from the database
get_container(st, name, fail) ==
    LET e == ensure_client(st, fail)
    IN IF e.err # "none" THEN [st |-> e.st, err |-> e.err, container |-> 0]
       ELSE IF e.st.containers[name] # 0
            THEN [st |-> e.st, err |-> "none", container |-> e.st.containers[name]]
       ELSE IF e.st.database = 0
            THEN [st |-> e.st, err |-> "AttributeError", container |-> 0]
       ELSE IF fail = "container"
            THEN [st |-> [e.st EXCEPT !.made.resolved[name] = @ + 1],
                  err |-> "ContainerError", container |-> 0]
       ELSE LET h == 10 * e.st.database + e.st.made.resolved[name] + 1
            IN [st |-> [e.st EXCEPT !.containers[name] = h,
                                    !.made.resolved[name] = @ + 1],
                err |-> "none", container |-> h]

ContainerOf(op) ==
    CASE op \in {"get_invoice", "query_invoices"} -> "invoices"
      [] op \in {"get_vendor", "query_vendors"} -> "vendors"
      [] op \in {"get_payment", "get_payments_for_invoice", "query_payments"} -> "payments"

\* tools without the `except Exception` handler
ErrorShape_propagates(op) == "raised"

\* what app.py's tool returns when the store operation raises: {} for a
\* point lookup, [] for a scan; without a tool the error reaches the caller
ErrorShape(op) ==
    IF op \notin Tools THEN "raised"
    ELSE IF op \in PointLookups THEN "empty_dict" ELSE "empty_list"

\* the task that called op and got the error err before any query was sent
Failed(op, err) ==
    [IdleTask EXCEPT !.pc = "done", !.op = op, !.error = err,
                     !.returned = "raised", !.result = ErrorShape(op)]

\* the arguments the concurrent operations are given: the defaults, and a
\* date_to that fromisoformat rejects
StoreDates == {NoneStr, SomeStr(DateStr(2025, 2, 30))}

StoreArgs(op) ==
    IF op \in {"query_invoices", "query_payments"}
    THEN {[DefaultArgs("ENG-1") EXCEPT !.date_to = x] : x \in StoreDates}
    ELSE {[DefaultArgs("ENG-1") EXCEPT !.key = "K-1"]}

\* a tool of app.py (or a direct caller, for query_vendors) calls the store
\* operation op: _get_container, the normalizers, the query text, and
\* query_items up to the first item awaited
Start(t) ==
    /\ task[t].pc = "idle"
    /\ made.calls < MaxCalls
    /\ \E op \in Operations, fail \in Failures :
        \E a \in StoreArgs(op) :
            LET got == get_container(Store, ContainerOf(op), fail)
                built == Operate(op, a)
            IN /\ client' = got.st.client
               /\ credential' = got.st.credential
               /\ database' = got.st.database
               /\ containers' = got.st.containers
               /\ made' = [got.st.made EXCEPT !.calls = @ + 1]
               /\ task' = [task EXCEPT ![t] =
                    IF got.err # "none" THEN Failed(op, got.err)
                    ELSE IF built.k # "sent" THEN Failed(op, built.k)
                    ELSE [IdleTask EXCEPT !.pc = "awaiting", !.op = op,
                                          !.sent = built.q, !.queries = 1,
                                          !.client = got.st.client,
                                          !.database = got.st.database,
                                          !.container = got.container]]

\* a point lookup that reads on after its first record, as a scan does
Yield_reads_on(t) ==
    /\ task[t].pc = "awaiting"
    /\ task[t].items < MaxItems
    /\ task' = [task EXCEPT ![t] = [@ EXCEPT !.items = @ + 1]]
    /\ UNCHANGED <<client, credential, database, containers, made>>

\* the store yields a record: a point lookup returns it at once, a scan
\* appends it and awaits the next
Yield(t) ==
    /\ task[t].pc = "awaiting"
    /\ task[t].items < MaxItems
    /\ task' = [task EXCEPT ![t] =
            IF task[t].op \in PointLookups
            THEN [@ EXCEPT !.pc = "done", !.items = 1, !.returned = "record",
                           !.result = "record"]
            ELSE [@ EXCEPT !.items = @ + 1]]
    /\ UNCHANGED <<client, credential, database, containers, made>>

\* the store has no more records: a point lookup returns None (the tool {}),
\* a scan returns what it collected (the tool [] when that is empty)
Exhaust(t) ==
    /\ task[t].pc = "awaiting"
    /\ task' = [task EXCEPT ![t] =
            IF task[t].op \in PointLookups
            THEN [@ EXCEPT !.pc = "done", !.returned = "None",
                           !.result = IF task[t].op \in Tools THEN "empty_dict" ELSE "None"]
            ELSE [@ EXCEPT !.pc = "done", !.returned = "list",
                           !.result = IF task[t].items = 0 /\ task[t].op \in Tools
                                      THEN "empty_list" ELSE "list"]]
    /\ UNCHANGED <<client, credential, database, containers, made>>

\* the store or the transport fails while the records are read: the operation
\* raises, and a tool returns its empty shape without the records read so far
StoreFails(t) ==
    /\ task[t].pc = "awaiting"
    /\ task' = [task EXCEPT ![t] =
            [@ EXCEPT !.pc = "done", !.error = "StoreError", !.returned = "raised",
                      !.result = ErrorShape(task[t].op)]]
    /\ UNCHANGED <<client, credential, database, containers, made>>

\* the caller takes the result; the task may call again
Finish(t) ==
    /\ task[t].pc = "done"
    /\ task' = [task EXCEPT ![t] = IdleTask]
    /\ UNCHANGED <<client, credential, database, containers, made>>

(***************************************************************************)
(* SpecSearch: AuditPolicySearchIndex.search of search_index.py.  The      *)
(* embedder (Azure OpenAI) and the index (Azure AI Search) are             *)
(* collaborators: each call to one of them returns or raises.              *)
(***************************************************************************)
\* how many calls of search are made, and how many documents the index
\* yields to one request
MaxSearches == 2
MaxDocs == 2

\* the attributes __init__ sets on the wrapper
NewIndex ==
    [a \in {"endpoint", "index_name", "api_key", "index_client",
            "search_client", "embedder"} |-> a]

\* top: int = 5
DefaultTop == 5

SearchArgs(query, engagement_id, top, use_server_vectorizer) ==
    [query |-> query, engagement_id |-> engagement_id, top |-> top,
     use_server_vectorizer |-> use_server_vectorizer]

Quote == <<"'">>

\* the text before the value in f"engagement_id eq '{engagement_id}'"
FilterPrefix == <<"e", "n", "g", "a", "g", "e", "m", "e", "n", "t", "_", "i", "d", " ", "e", "q", " ", "'">>

\* filter_expr: the value is placed between the quotes as it is
filter_expr(engagement_id) ==
    IF Truthy(engagement_id)
    THEN SomeStr(FilterPrefix \o engagement_id.v \o Quote)
    ELSE NoneStr

\* the vector the embedder computes for a text, and no vector
Embedding(text) == [of |-> text]
NoVector == [of |-> ""]

\* VectorizableTextQuery(text=query, k=top, fields="content_vector",
\* vectorizer="my-vectorizer")
VectorizableTextQuery(text, k) ==
    [kind |-> "text", text |-> text, vector |-> NoVector, k |-> k,
     fields |-> "content_vector", vectorizer |-> "my-vectorizer"]

\* {"vector": query_vector, "k": top, "fields": "content_vector"}
RawVectorQuery(vector, k) ==
    [kind |-> "vector", text |-> "", vector |-> vector, k |-> k,
     fields |-> "content_vector", vectorizer |-> ""]

\* what a call to the embedder does: a vector for each text, no vector at
\* all, or an exception
Embeddings == {"vectors", "empty", "raise"}

\* EmbeddingClient.embed(texts)
embed(texts, embedding) ==
    IF embedding = "raise" THEN [k |-> "raise", v |-> <<>>]
    ELSE IF embedding = "empty" THEN [k |-> "ok", v |-> <<>>]
    ELSE [k |-> "ok", v |-> [i \in 1..Len(texts) |-> Embedding(texts[i])]]

\* the vector query of a call: what it attempted, what it passed to the
\* embedder on each call of it, and the vector_queries it built
Vectorized(self, constructs, embedded, error, vector_queries) ==
    [self |-> self, constructs |-> constructs, embedded |-> embedded,
     error |-> error, vector_queries |-> vector_queries]

\* lines 243-267 with an embedder that is asked again after it raised
Vectorize_retries(self, a, vectorizable, embedding) ==
    LET tried == IF a.use_server_vectorizer THEN 1 ELSE 0
        emb == embed(<<a.query>>, embedding)
    IN IF a.use_server_vectorizer /\ vectorizable
       THEN Vectorized(self, 1, <<>>, "none",
                       <<VectorizableTextQuery(a.query, a.top)>>)
       ELSE IF emb.k = "raise"
            THEN Vectorized(self, tried, <<<<a.query>>, <<a.query>>>>,
                            "EmbeddingError", <<>>)
       ELSE IF Len(emb.v) = 0
            THEN Vectorized(self, tried, <<<<a.query>>>>, "IndexError", <<>>)
       ELSE Vectorized(self, tried, <<<<a.query>>>>, "none",
                       <<RawVectorQuery(emb.v[1], a.top)>>)

\* lines 243-267 with the embedder called on the server path too
Vectorize_embeds_always(self, a, vectorizable, embedding) ==
    LET tried == IF a.use_server_vectorizer THEN 1 ELSE 0
        emb == embed(<<a.query>>, embedding)
    IN IF emb.k = "raise"
       THEN Vectorized(self, tried, <<<<a.query>>>>, "EmbeddingError", <<>>)
       ELSE IF Len(emb.v) = 0
            THEN Vectorized(self, tried, <<<<a.query>>>>, "IndexError", <<>>)
       ELSE IF a.use_server_vectorizer /\ vectorizable
            THEN Vectorized(self, 1, <<<<a.query>>>>, "none",
                            <<VectorizableTextQuery(a.query, a.top)>>)
       ELSE Vectorized(self, tried, <<<<a.query>>>>, "none",
                       <<RawVectorQuery(emb.v[1], a.top)>>)

\* lines 243-267 with the fallback kept on the wrapper for later calls
Vectorize_remembers_fallback(self, a, vectorizable, embedding) ==
    LET use == a.use_server_vectorizer /\ "local_only" \notin DOMAIN self
        tried == IF use THEN 1 ELSE 0
        kept == IF use /\ ~vectorizable THEN ("local_only" :> "True") @@ self
                ELSE self
        emb == embed(<<a.query>>, embedding)
    IN IF use /\ vectorizable
       THEN Vectorized(kept, 1, <<>>, "none",
                       <<VectorizableTextQuery(a.query, a.top)>>)
       ELSE IF emb.k = "raise"
            THEN Vectorized(kept, tried, <<<<a.query>>>>, "EmbeddingError", <<>>)
       ELSE IF Len(emb.v) = 0
            THEN Vectorized(kept, tried, <<<<a.query>>>>, "IndexError", <<>>)
       ELSE Vectorized(kept, tried, <<<<a.query>>>>, "none",
                       <<RawVectorQuery(emb.v[1], a.top)>>)

\* lines 243-267: the server-side vector query if it is asked for and can
\* be constructed (vectorizable), else the embedding of [query]; the
\* assignment of line 257 is to the local name and leaves self as it was
Vectorize(self, a, vectorizable, embedding) ==
    LET tried == IF a.use_server_vectorizer THEN 1 ELSE 0
        emb == embed(<<a.query>>, embedding)
    IN IF a.use_server_vectorizer /\ vectorizable
       THEN Vectorized(self, 1, <<>>, "none",
                       <<VectorizableTextQuery(a.query, a.top)>>)
       ELSE IF emb.k = "raise"
            THEN Vectorized(self, tried, <<<<a.query>>>>, "EmbeddingError", <<>>)
       ELSE IF Len(emb.v) = 0
            THEN Vectorized(self, tried, <<<<a.query>>>>, "IndexError", <<>>)
       ELSE Vectorized(self, tried, <<<<a.query>>>>, "none",
                       <<RawVectorQuery(emb.v[1], a.top)>>)

\* self.search_client.search(search_text=, filter=, vector_queries=, top=)
SearchRequest(a, vector_queries) ==
    [search_text |-> a.query, filter |-> filter_expr(a.engagement_id),
     vector_queries |-> vector_queries, top |-> a.top]

\* the fields of an index document, and the keys of a result
IndexFields ==
    {"id", "doc_type", "engagement_id", "policy_id", "section",
     "effective_date", "content", "content_vector", "@search.score"}

ResultKeys ==
    {"id", "doc_type", "engagement_id", "policy_id", "section",
     "effective_date", "content", "score"}

\* r.get(field): the value, or None for a field the document lacks
Get(r, field) == IF field \in DOMAIN r THEN SomeStr(r[field]) ELSE NoneStr

\* the dictionary built for one document r
Project(r) ==
    [key \in ResultKeys |->
        IF key = "score" THEN Get(r, "@search.score") ELSE Get(r, key)]

\* the list comprehension read from the last document to the first
Results_reversed(docs) ==
    [i \in 1..Len(docs) |-> Project(docs[Len(docs) + 1 - i])]

\* the list comprehension of lines 276-288
Results(docs) == [i \in 1..Len(docs) |-> Project(docs[i])]

\* the documents of the index: document n with the given fields
Doc(n, fields) == [f \in fields |-> <<f, n>>]

\* a document with every field, and one with its key and its vector only
DocSamples == {Doc(1, IndexFields), Doc(2, {"id", "content_vector"})}

DocSeqs == UNION {[1..n -> DocSamples] : n \in 0..MaxDocs}

\* what the index does with a request: it raises, it yields a document and
\* then raises, or it yields its documents
Replies ==
    {[k |-> "raise", docs |-> <<>>], [k |-> "breaks", docs |-> <<Doc(1, IndexFields)>>]}
        \cup {[k |-> "ok", docs |-> s] : s \in DocSeqs}

NoReply == [k |-> "none", docs |-> <<>>]

\* a filter whose last string literal is not closed; the index rejects it
Unterminated(filter) ==
    /\ filter.k = "str"
    /\ Cardinality({i \in 1..Len(filter.v) : filter.v[i] = "'"}) % 2 = 1

\* the arguments given to search
Queries == {"duplicate invoices", "approval threshold"}
Tops == {DefaultTop, 1}

OBrien == <<"O", "'", "B", "r", "i", "e", "n">>
AnyEngagement == <<"'", " ", "o", "r", " ", "e", "n", "g", "a", "g", "e", "m", "e", "n", "t", "_", "i", "d", " ", "n", "e", " ", "'">>

SearchEngagements ==
    {NoneStr, SomeStr(<<>>), SomeStr(<<"E", "N", "G", "-", "1">>), SomeStr(OBrien),
     SomeStr(AnyEngagement)}

NoSearch ==
    [pc |-> "idle", args |-> SearchArgs("", NoneStr, DefaultTop, TRUE),
     vectorizable |-> FALSE, embedding |-> "none", reply |-> NoReply,
     constructs |-> 0, embedded |-> <<>>, requests |-> <<>>,
     error |-> "none", returned |-> "nothing", result |-> <<>>]

SearchIdle ==
    /\ index = NewIndex
    /\ searched = NoSearch
    /\ history = [calls |-> 0, fell_back |-> FALSE]

\* the call fell back from the server-side vectorizer to the embedder
FellBack(s) == s.constructs = 1 /\ Len(s.embedded) > 0

\* search is called: lines 240-274, up to the request handed to the index,
\* or to the exception of the embedder
SearchCall ==
    /\ searched.pc \in {"idle", "done"}
    /\ history.calls < MaxSearches
    /\ \E query \in Queries, engagement_id \in SearchEngagements, top \in Tops,
          use_server_vectorizer \in BOOLEAN,
          vectorizable \in BOOLEAN, embedding \in Embeddings :
        LET a == SearchArgs(query, engagement_id, top, use_server_vectorizer)
            v == Vectorize(index, a, vectorizable, embedding)
            begun == [NoSearch EXCEPT !.args = a,
                                       !.vectorizable = vectorizable,
                                       !.embedding = embedding,
                                       !.constructs = v.constructs,
                                       !.embedded = v.embedded]
        IN /\ index' = v.self
           /\ history' = [calls |-> history.calls + 1,
                          fell_back |-> FellBack(searched)]
           /\ searched' =
                IF v.error # "none"
                THEN [begun EXCEPT !.pc = "done", !.error = v.error,
                                   !.returned = "raised"]
                ELSE [begun EXCEPT !.pc = "requested",
                                   !.requests = <<SearchRequest(a, v.vector_queries)>>]

\* search answers [] when the index raised
Answer_masks_failure(reply) ==
    IF reply.k # "ok"
    THEN [error |-> "none", returned |-> "list", result |-> <<>>]
    ELSE [error |-> "none", returned |-> "list", result |-> Results(reply.docs)]

\* lines 269-288: the exception of the index reaches the caller, with
\* nothing of what was read before it; else one dictionary per document
Answer(reply) ==
    IF reply.k # "ok"
    THEN [error |-> "HttpResponseError", returned |-> "raised", result |-> <<>>]
    ELSE [error |-> "none", returned |-> "list", result |-> Results(reply.docs)]

\* the index replies to the request, and search returns or raises
IndexReplies ==
    /\ searched.pc = "requested"
    /\ \E reply \in Replies :
        /\ Unterminated(searched.requests[1].filter) => reply.k = "raise"
        /\ searched' = [searched EXCEPT !.pc = "done", !.reply = reply,
                                        !.error = Answer(reply).error,
                                        !.returned = Answer(reply).returned,
                                        !.result = Answer(reply).result]
    /\ UNCHANGED <<index, history>>

(***************************************************************************)
(* The specifications.                                                     *)
(***************************************************************************)
InitNorm ==
    /\ d \in NormInputs
    /\ start_iso = Unset /\ end_iso = Unset
    /\ start_again = Unset /\ end_again = Unset
    /\ QueryIdle
    /\ StoreIdle
    /\ SearchIdle

NextNorm ==
    \/ NormalizeStart /\ UNCHANGED <<queryVars, storeVars, searchVars>>
    \/ NormalizeEnd /\ UNCHANGED <<queryVars, storeVars, searchVars>>
    \/ NormalizeStartAgain /\ UNCHANGED <<queryVars, storeVars, searchVars>>
    \/ NormalizeEndAgain /\ UNCHANGED <<queryVars, storeVars, searchVars>>

SpecNorm == InitNorm /\ [][NextNorm]_vars

InitQuery ==
    /\ NormIdle
    /\ QueryIdle
    /\ StoreIdle
    /\ SearchIdle

NextQuery ==
    \/ GetInvoice /\ UNCHANGED <<normVars, storeVars, searchVars>>
    \/ GetVendor /\ UNCHANGED <<normVars, storeVars, searchVars>>
    \/ GetPayment /\ UNCHANGED <<normVars, storeVars, searchVars>>
    \/ GetPaymentsForInvoice /\ UNCHANGED <<normVars, storeVars, searchVars>>
    \/ QueryInvoices /\ UNCHANGED <<normVars, storeVars, searchVars>>
    \/ QueryPayments /\ UNCHANGED <<normVars, storeVars, searchVars>>
    \/ QueryVendors /\ UNCHANGED <<normVars, storeVars, searchVars>>

SpecQuery == InitQuery /\ [][NextQuery]_vars

Init ==
    /\ NormIdle
    /\ QueryIdle
    /\ StoreIdle
    /\ SearchIdle

Next ==
    \/ \E t \in Tasks : Start(t) /\ UNCHANGED <<normVars, queryVars, searchVars>>
    \/ \E t \in Tasks : Yield(t) /\ UNCHANGED <<normVars, queryVars, searchVars>>
    \/ \E t \in Tasks : Exhaust(t) /\ UNCHANGED <<normVars, queryVars, searchVars>>
    \/ \E t \in Tasks : StoreFails(t) /\ UNCHANGED <<normVars, queryVars, searchVars>>
    \/ \E t \in Tasks : Finish(t) /\ UNCHANGED <<normVars, queryVars, searchVars>>

Spec == Init /\ [][Next]_vars

InitSearch ==
    /\ NormIdle
    /\ QueryIdle
    /\ StoreIdle
    /\ SearchIdle

NextSearch ==
    \/ SearchCall /\ UNCHANGED <<normVars, queryVars, storeVars>>
    \/ IndexReplies /\ UNCHANGED <<normVars, queryVars, storeVars>>

SpecSearch == InitSearch /\ [][NextSearch]_vars

\* a process runs the store (the MCP server) or the search index (the data
\* generator), never both
StoreUnused == made.calls = 0
SearchUnused == history.calls = 0

InitComponents ==
    /\ NormIdle
    /\ QueryIdle
    /\ StoreIdle
    /\ SearchIdle

NextComponents ==
    \/ SearchUnused /\ Next
    \/ StoreUnused /\ NextSearch

SpecComponents == InitComponents /\ [][NextComponents]_vars

(***************************************************************************)
(* The vocabulary of the properties: the calendar, timestamps and the      *)
(* record store's comparison, stated apart from the code's arithmetic.     *)
(***************************************************************************)
\* days before month m in a common year
DaysBefore == <<0, 31, 59, 90, 120, 151, 181, 212, 243, 273, 304, 334, 365>>

LeapYear(y) == IF y % 400 = 0 THEN TRUE ELSE IF y % 100 = 0 THEN FALSE ELSE y % 4 = 0

LeapShift(y, m) == IF LeapYear(y) /\ m > 2 THEN 1 ELSE 0

\* the ordinal of a calendar day: days since 0001-01-01, that day being 1
DayNum(y, m, dd) ==
    365 * (y - 1) + ((y - 1) \div 4) - ((y - 1) \div 100) + ((y - 1) \div 400)
        + DaysBefore[m] + LeapShift(y, m) + dd

CalendarDay(y, m, dd) ==
    /\ y \in 1..9999 /\ m \in 1..12 /\ dd >= 1
    /\ dd <= DaysBefore[m + 1] - DaysBefore[m] + (IF LeapYear(y) /\ m = 2 THEN 1 ELSE 0)

NumAt(s, i, n) ==
    IF n = 2 THEN 10 * DigitVal(s[i]) + DigitVal(s[i + 1])
    ELSE 1000 * DigitVal(s[i]) + 100 * DigitVal(s[i + 1])
         + 10 * DigitVal(s[i + 2]) + DigitVal(s[i + 3])

\* s starts with the digits and dashes of a calendar day, YYYY-MM-DD
DatePrefix(s) ==
    /\ Len(s) >= 10
    /\ s[5] = "-" /\ s[8] = "-"
    /\ \A i \in {1, 2, 3, 4, 6, 7, 9, 10} : IsDigit(s[i])
    /\ CalendarDay(NumAt(s, 1, 4), NumAt(s, 6, 2), NumAt(s, 9, 2))

IsBareDate(s) == Len(s) = 10 /\ DatePrefix(s)

DayNumOf(s) == DayNum(NumAt(s, 1, 4), NumAt(s, 6, 2), NumAt(s, 9, 2))

IsOffset(o) ==
    /\ Len(o) = 6
    /\ o[1] \in {"+", "-"} /\ o[4] = ":"
    /\ \A i \in {2, 3, 5, 6} : IsDigit(o[i])
    /\ NumAt(o, 2, 2) <= 23 /\ NumAt(o, 5, 2) <= 59

\* a full timestamp: YYYY-MM-DDTHH:MM:SS, then nothing, Z or an offset
IsTimestamp(s) ==
    /\ Len(s) >= 19
    /\ DatePrefix(s)
    /\ s[11] = "T" /\ s[14] = ":" /\ s[17] = ":"
    /\ \A i \in {12, 13, 15, 16, 18, 19} : IsDigit(s[i])
    /\ NumAt(s, 12, 2) <= 23 /\ NumAt(s, 15, 2) <= 59 /\ NumAt(s, 18, 2) <= 59
    /\ LET rest == Slice(s, 20, Len(s))
       IN rest = <<>> \/ rest = Zulu \/ IsOffset(rest)

EndsWith(s, suffix) ==
    Len(s) >= Len(suffix) /\ Slice(s, Len(s) - Len(suffix) + 1, Len(s)) = suffix

\* midnight UTC of a calendar day, rendered YYYY-MM-DDT00:00:00Z
MidnightOf(y, m, dd) == DateStr(y, m, dd) \o Midnight \o Zulu

\* s is midnight UTC of the calendar day after the bare date b: a calendar
\* day rendered YYYY-MM-DDT00:00:00Z whose ordinal is one more than b's
IsMidnightAfter(s, b) ==
    /\ Len(s) = 20
    /\ DatePrefix(s)
    /\ Slice(s, 11, 20) = Midnight \o Zulu
    /\ DayNumOf(s) = DayNumOf(b) + 1

LastDay == DateStr(9999, 12, 31)

(***************************************************************************)
(* C1  Tenant isolation: every query an operation hands to the record      *)
(* store has the equality on engagement_id as its first clause and         *)
(* @engagement_id, carrying the caller's engagement_id, as its first       *)
(* parameter.                                                              *)
(***************************************************************************)
C1_TenantFirst ==
    outcome.k = "sent" =>
        /\ Len(outcome.q.where) >= 1 /\ Len(outcome.q.params) >= 1
        /\ outcome.q.where[1] = Clause("engagement_id", "=", "@engagement_id")
        /\ outcome.q.params[1].name = "@engagement_id"
        /\ outcome.q.params[1].value.t = "id"
        /\ outcome.q.params[1].value.id = call.args.engagement_id

C1_Witness ==
    /\ call.op = "query_vendors"
    /\ call.args.engagement_id = "ENG-2"
    /\ call.args.risk_tier = "HIGH"
    /\ outcome.k = "sent"
    /\ Len(outcome.q.where) = 2

C2_LowerIsMidnight ==
    (Truthy(d) /\ IsBareDate(d.v) /\ start_iso # Unset) =>
        start_iso = SomeStr(d.v \o Midnight \o Zulu)

(***************************************************************************)
(* C2  As claimed: for every valid bare date d the upper bound is midnight *)
(* UTC of the following calendar day, YYYY-MM-DDT00:00:00Z, and the lower  *)
(* bound is dT00:00:00Z.                                                   *)
(***************************************************************************)
C2_EveryBareDate ==
    (Truthy(d) /\ IsBareDate(d.v)) =>
        /\ C2_LowerIsMidnight
        /\ end_iso # Unset => (end_iso.k = "str" /\ IsMidnightAfter(end_iso.v, d.v))

(***************************************************************************)
(* C2 amended: for every valid bare date d before 9999-12-31 the upper     *)
(* bound is midnight UTC of the following calendar day; for 9999-12-31,    *)
(* whose following day datetime cannot hold, the upper normalizer raises   *)
(* OverflowError; the lower bound is dT00:00:00Z for every bare date.      *)
(***************************************************************************)
C2_BareDateBounds ==
    (Truthy(d) /\ IsBareDate(d.v)) =>
        /\ C2_LowerIsMidnight
        /\ end_iso # Unset =>
            IF d.v = LastDay THEN end_iso = Raised("OverflowError")
            ELSE end_iso.k = "str" /\ IsMidnightAfter(end_iso.v, d.v)

C2_Witness ==
    /\ d = SomeStr(DateStr(2024, 2, 29))
    /\ start_iso = SomeStr(MidnightOf(2024, 2, 29))
    /\ end_iso = SomeStr(MidnightOf(2024, 3, 1))

ZForOffset(s) == Slice(s, 1, Len(s) - Len(PlusZero)) \o Zulu

C6_Expected(s, out) ==
    /\ EndsWith(s, PlusZero) => out = SomeStr(ZForOffset(s))
    /\ EndsWith(s, Zulu) => out = SomeStr(s)

(***************************************************************************)
(* C6  A full timestamp with a +00:00 offset comes out of both normalizers *)
(* as the same date and time with Z in place of the offset (no day shift   *)
(* on the upper bound); one ending in Z comes out unchanged; normalizing   *)
(* the output of a full timestamp again changes nothing.                   *)
(***************************************************************************)
C6_UtcOffsetToZ ==
    (Truthy(d) /\ IsTimestamp(d.v)) =>
        /\ start_iso # Unset => C6_Expected(d.v, start_iso)
        /\ end_iso # Unset => C6_Expected(d.v, end_iso)
        /\ start_again # Unset => start_again = start_iso
        /\ end_again # Unset => end_again = end_iso

C6_Witness ==
    /\ d = SomeStr(DateStr(2025, 12, 31) \o TimeStr(23, 59, 59) \o PlusZero)
    /\ start_iso = SomeStr(DateStr(2025, 12, 31) \o TimeStr(23, 59, 59) \o Zulu)
    /\ end_iso = start_iso
    /\ start_again = start_iso
    /\ end_again = end_iso

(***************************************************************************)
(* The record store's reading of a date clause: the stored UTC ISO-8601    *)
(* string compared with the bound parameter, character by character.       *)
(***************************************************************************)
Alphabet == <<"+", "-", ".", "/", "0", "1", "2", "3", "4", "5", "6", "7", "8", "9",
              ":", "T", "Z", "a", "b", "c", "n", "o">>

Ord(c) == CHOOSE i \in 1..Len(Alphabet) : Alphabet[i] = c

StrLess(a, b) ==
    \E i \in 1..(Len(a) + 1) :
        /\ \A j \in 1..(i - 1) : j <= Len(b) /\ a[j] = b[j]
        /\ i <= Len(b)
        /\ (i > Len(a) \/ Ord(a[i]) < Ord(b[i]))

Compare(a, op, b) ==
    CASE op = ">=" -> ~StrLess(a, b)
      [] op = "<" -> StrLess(a, b)
      [] op = "<=" -> ~StrLess(b, a)
      [] op = "=" -> a = b

BoundTo(q, name) == q.params[CHOOSE j \in 1..Len(q.params) : q.params[j].name = name].value

\* the record whose date field is r passes every clause of q on that field
InRange(q, field, r) ==
    \A i \in 1..Len(q.where) :
        q.where[i].field = field =>
            Compare(r, q.where[i].op, BoundTo(q, q.where[i].param).s)

RecordDays ==
    {<<2025, 6, 30>>, <<2025, 7, 1>>, <<2025, 7, 2>>, <<2025, 9, 29>>, <<2025, 9, 30>>,
     <<2025, 10, 1>>, <<2024, 2, 27>>, <<2024, 2, 28>>, <<2024, 2, 29>>, <<2024, 3, 1>>,
     <<2025, 12, 30>>, <<2025, 12, 31>>, <<2026, 1, 1>>, <<9999, 12, 30>>, <<9999, 12, 31>>}

\* stored date fields, as generate.py's utc_iso writes them: whole seconds,
\* YYYY-MM-DDTHH:MM:SSZ
RecordInstants ==
    {DateStr(x[1], x[2], x[3]) \o TimeStr(t[1], t[2], t[3]) \o Zulu :
        x \in RecordDays, t \in StampTimes}

IsMidnightInstant(r) == Slice(r, 11, Len(r)) = Midnight \o Zulu

DateField(op) == IF op = "query_invoices" THEN "invoice_date" ELSE "paid_at"

C3_Case ==
    /\ outcome.k = "sent"
    /\ call.op \in {"query_invoices", "query_payments"}
    /\ Truthy(call.args.date_from) /\ IsBareDate(call.args.date_from.v)
    /\ Truthy(call.args.date_to) /\ IsBareDate(call.args.date_to.v)
    /\ DayNumOf(call.args.date_from.v) <= DayNumOf(call.args.date_to.v)

(***************************************************************************)
(* C3  With bare dates date_from = a and date_to = b, a <= b, a query sent *)
(* by query_invoices or query_payments carries the lower bound with >= and *)
(* the upper bound with <; every record dated from midnight of a through   *)
(* the last instant of day b passes both clauses, and a record dated       *)
(* midnight of the day after b does not.                                   *)
(***************************************************************************)
C3_InclusiveExclusive ==
    C3_Case =>
        LET q == outcome.q
            field == DateField(call.op)
            a == DayNumOf(call.args.date_from.v)
            b == DayNumOf(call.args.date_to.v)
        IN /\ Len(q.where) >= 3
           /\ q.where[2] = Clause(field, ">=", "@date_from")
           /\ q.where[3] = Clause(field, "<", "@date_to")
           /\ \A r \in RecordInstants :
                (a <= DayNumOf(r) /\ DayNumOf(r) <= b) => InRange(q, field, r)
           /\ \A r \in RecordInstants :
                (DayNumOf(r) = b + 1 /\ IsMidnightInstant(r)) => ~InRange(q, field, r)

C3_Witness ==
    /\ C3_Case
    /\ call.op = "query_payments"
    /\ call.args.date_from = SomeStr(DateStr(2025, 7, 1))
    /\ call.args.date_to = SomeStr(DateStr(2025, 9, 30))
    /\ BoundTo(outcome.q, "@date_to").s = MidnightOf(2025, 10, 1)

IsMalformedDate(x) == Truthy(x) /\ ~IsBareDate(x.v) /\ ~IsTimestamp(x.v)

(***************************************************************************)
(* C4  As claimed: a non-empty date_from or date_to that is neither a bare *)
(* calendar date nor a full timestamp makes query_invoices and             *)
(* query_payments raise a validation error, so no query is sent.           *)
(***************************************************************************)
C4_MalformedRejected ==
    (/\ call.op \in {"query_invoices", "query_payments"}
     /\ IsMalformedDate(call.args.date_from) \/ IsMalformedDate(call.args.date_to))
        => outcome.k = "ValueError"

DateArg(name) == IF name = "@date_from" THEN call.args.date_from ELSE call.args.date_to

(***************************************************************************)
(* C5  As claimed: whenever date_from or date_to is a bare date or a full  *)
(* timestamp (with Z, +00:00, another offset or none), the value bound to  *)
(* @date_from or @date_to is a UTC timestamp ending in Z.                  *)
(***************************************************************************)
C5_BoundsEndInZ ==
    outcome.k = "sent" =>
        \A i \in 1..Len(outcome.q.params) :
            LET p == outcome.q.params[i]
            IN (/\ p.name \in {"@date_from", "@date_to"}
                /\ IsBareDate(DateArg(p.name).v) \/ IsTimestamp(DateArg(p.name).v))
                    => (IsTimestamp(p.value.s) /\ EndsWith(p.value.s, Zulu))

InvoiceOrder ==
    <<Clause("engagement_id", "=", "@engagement_id"),
      Clause("invoice_date", ">=", "@date_from"),
      Clause("invoice_date", "<", "@date_to"),
      Clause("vendor_id", "=", "@vendor_id"),
      Clause("status", "=", "@status"),
      Clause("amount", ">=", "@min_amount"),
      Clause("amount", "<=", "@max_amount")>>

PaymentOrder ==
    <<Clause("engagement_id", "=", "@engagement_id"),
      Clause("paid_at", ">=", "@date_from"),
      Clause("paid_at", "<", "@date_to"),
      Clause("vendor_id", "=", "@vendor_id"),
      Clause("invoice_id", "=", "@invoice_id")>>

\* where is order with some entries left out
IsSubsequence(where, order) ==
    /\ \A i \in 1..Len(where) : \E j \in 1..Len(order) : order[j] = where[i]
    /\ \A i \in 1..Len(where) : \A i2 \in 1..Len(where) :
        i < i2 => \E j \in 1..Len(order) : \E j2 \in 1..Len(order) :
            j < j2 /\ order[j] = where[i] /\ order[j2] = where[i2]

ParamsFollowClauses(q) ==
    /\ Len(q.params) = Len(q.where)
    /\ \A i \in 1..Len(q.where) : q.params[i].name = q.where[i].param

VendorAndMinAmount(a) ==
    /\ ~Truthy(a.date_from) /\ ~Truthy(a.date_to)
    /\ a.vendor_id = SomeId("VEN-1000") /\ ~TruthyId(a.status)
    /\ a.min_amount = SomeNum(1000) /\ a.max_amount = NoneNum

(***************************************************************************)
(* C7  The clauses of query_invoices and of query_payments follow one      *)
(* fixed order whatever criteria are given, the parameters follow the      *)
(* clauses one for one, and vendor_id with min_amount gives exactly        *)
(* engagement_id =, vendor_id =, amount >= with three parameters.          *)
(***************************************************************************)
C7_FixedOrder ==
    outcome.k = "sent" =>
        /\ call.op = "query_invoices" => IsSubsequence(outcome.q.where, InvoiceOrder)
        /\ call.op = "query_payments" => IsSubsequence(outcome.q.where, PaymentOrder)
        /\ call.op \in {"query_invoices", "query_payments"} => ParamsFollowClauses(outcome.q)
        /\ (call.op = "query_invoices" /\ VendorAndMinAmount(call.args)) =>
            /\ outcome.q.where = <<InvoiceOrder[1], InvoiceOrder[4], InvoiceOrder[6]>>
            /\ Len(outcome.q.params) = 3
            /\ outcome.q.params[2].value.id = "VEN-1000"
            /\ outcome.q.params[3].value.n = 1000

C7_Witness ==
    /\ outcome.k = "sent"
    /\ call.op = "query_invoices"
    /\ VendorAndMinAmount(call.args)
    /\ call.args.limit = 50
    /\ Len(outcome.q.where) = 3

Count(where, c) == Cardinality({i \in 1..Len(where) : where[i] = c})

Once(where, present, c) == Count(where, c) = (IF present THEN 1 ELSE 0)

HowMany(flags) == Cardinality({i \in 1..Len(flags) : flags[i]})

BoundOnce(q) ==
    /\ Len(q.params) = Len(q.where)
    /\ \A i \in 1..Len(q.where) :
        Cardinality({j \in 1..Len(q.params) : q.params[j].name = q.where[i].param}) = 1

InvoiceCriteria(a) ==
    <<Truthy(a.date_from), Truthy(a.date_to), TruthyId(a.vendor_id), TruthyId(a.status),
      a.min_amount.k = "num", a.max_amount.k = "num">>

PaymentCriteria(a) ==
    <<Truthy(a.date_from), Truthy(a.date_to), TruthyId(a.vendor_id), TruthyId(a.invoice_id)>>

C8_Invoices(a, q) ==
    /\ \A i \in 1..6 : Once(q.where, InvoiceCriteria(a)[i], InvoiceOrder[i + 1])
    /\ Len(q.where) = 1 + HowMany(InvoiceCriteria(a))

C8_Payments(a, q) ==
    /\ \A i \in 1..4 : Once(q.where, PaymentCriteria(a)[i], PaymentOrder[i + 1])
    /\ Len(q.where) = 1 + HowMany(PaymentCriteria(a))

C8_Vendors(a, q) ==
    /\ Once(q.where, a.risk_tier # "", Clause("risk_tier", "=", "@risk_tier"))
    /\ Len(q.where) = 1 + (IF a.risk_tier # "" THEN 1 ELSE 0)

(***************************************************************************)
(* C8  In every query sent by query_invoices, query_payments and           *)
(* query_vendors a criterion's clause appears once if the criterion is     *)
(* present (a min_amount or max_amount of 0 is present) and not at all if  *)
(* it is None or empty; there are as many parameters as clauses, each      *)
(* placeholder bound exactly once; absent or empty criteria raise nothing. *)
(***************************************************************************)
C8_ClauseIffPresent ==
    /\ outcome.k = "sent" =>
        /\ call.op = "query_invoices" => C8_Invoices(call.args, outcome.q)
        /\ call.op = "query_payments" => C8_Payments(call.args, outcome.q)
        /\ call.op = "query_vendors" => C8_Vendors(call.args, outcome.q)
        /\ call.op \in {"query_invoices", "query_payments", "query_vendors"}
            => BoundOnce(outcome.q)
    /\ (/\ call.op \in {"query_invoices", "query_payments", "query_vendors"}
        /\ ~Truthy(call.args.date_from) /\ ~Truthy(call.args.date_to))
            => outcome.k = "sent"

C8_Witness ==
    /\ outcome.k = "sent"
    /\ call.op = "query_invoices"
    /\ call.args.date_from = SomeStr(<<>>)
    /\ call.args.vendor_id = SomeId("")
    /\ call.args.status = NoneId
    /\ call.args.min_amount = SomeNum(0)
    /\ call.args.max_amount = SomeNum(0)
    /\ call.args.date_to = NoneStr
    /\ Len(outcome.q.where) = 3

MultiRecord == {"query_invoices", "query_payments", "query_vendors",
                "get_payments_for_invoice"}

(***************************************************************************)
(* C9  As claimed: every multi-record query (query_invoices,               *)
(* query_payments, query_vendors, get_payments_for_invoice) carries an     *)
(* explicit result cap, the caller's limit where the operation has one.    *)
(***************************************************************************)
C9_AlwaysCapped ==
    (outcome.k = "sent" /\ call.op \in MultiRecord) =>
        /\ outcome.q.cap.k = "limit"
        /\ call.op # "get_payments_for_invoice" => outcome.q.cap.n = call.args.limit

Reached(t) == task[t].queries > 0

(***************************************************************************)
(* C10  As claimed: however the operations started on one store interleave *)
(* at their suspension points, exactly one credential and exactly one      *)
(* client are constructed, and every operation that reached the record     *)
(* store used that one client and its database handle.                     *)
(***************************************************************************)
C10_SingleFlight ==
    /\ made.credentials <= 1 /\ made.clients <= 1
    /\ \A t \in Tasks : Reached(t) =>
        /\ made.credentials = 1 /\ made.clients = 1
        /\ task[t].client = 1 /\ task[t].database = 1

(***************************************************************************)
(* C11  As claimed: over any sequence and interleaving of operations on    *)
(* one store, get_container_client is invoked at most once for each of     *)
(* 'invoices', 'vendors' and 'payments'.                                   *)
(***************************************************************************)
C11_ResolvedOnce ==
    \A n \in ContainerNames : made.resolved[n] <= 1

\* once a handle is cached under a name, no step replaces it or invokes
\* get_container_client for that name again
KeepsHandles ==
    \A n \in ContainerNames :
        containers[n] # 0 =>
            /\ containers'[n] = containers[n]
            /\ made'.resolved[n] = made.resolved[n]

\* every operation that reached the record store used the cached handle
UsesCachedHandle ==
    \A t \in Tasks : Reached(t) =>
        /\ task[t].container # 0
        /\ task[t].container = containers[ContainerOf(task[t].op)]

(***************************************************************************)
(* C11  Amended: get_container_client returns a handle at most once for    *)
(* each name (an invocation that raised caches nothing, and the next       *)
(* operation on that name invokes it again); once a handle is cached it is *)
(* never replaced nor resolved again, and every operation that reaches the *)
(* record store uses the cached handle of its entity kind.                 *)
(***************************************************************************)
C11_CachedByName ==
    [][KeepsHandles]_vars /\ []UsesCachedHandle

\* two operations on the same entity kind hold the one handle, resolved once
C11_Witness ==
    /\ Reached(1) /\ Reached(2)
    /\ ContainerOf(task[1].op) = ContainerOf(task[2].op)
    /\ task[1].op # task[2].op
    /\ made.resolved[ContainerOf(task[1].op)] = 1
    /\ task[1].container = task[2].container

\* a point lookup that ended without an error
Answered(t) ==
    /\ task[t].op \in PointLookups
    /\ task[t].pc = "done"
    /\ task[t].error = "none"

(***************************************************************************)
(* C12  get_invoice, get_vendor and get_payment return None, without       *)
(* raising, when the store yields no record, and otherwise return the      *)
(* first record yielded and read nothing after it: a point lookup never    *)
(* takes a second record from the store.                                   *)
(***************************************************************************)
C12_PointLookup ==
    \A t \in Tasks :
        /\ task[t].op \in PointLookups =>
            /\ task[t].items <= 1
            /\ task[t].items = 1 => task[t].pc = "done" /\ task[t].returned = "record"
        /\ Answered(t) =>
            \/ task[t].items = 0 /\ task[t].returned = "None"
            \/ task[t].items = 1 /\ task[t].returned = "record"

\* one lookup found nothing while another took the first record yielded
C12_Witness ==
    /\ Answered(1) /\ task[1].items = 0 /\ task[1].returned = "None"
    /\ Answered(2) /\ task[2].items = 1 /\ task[2].returned = "record"

\* the failures the store layer raises: in initialization, in date
\* validation, and from the record store before or between records
InitErrors == {"CredentialError", "ClientError", "DatabaseError",
               "ContainerError", "AttributeError"}
DateErrors == {"ValueError", "OverflowError"}
StoreErrors == InitErrors \cup DateErrors \cup {"StoreError"}

\* a tool of app.py whose store operation raised
ToolFailed(t) ==
    /\ task[t].pc = "done"
    /\ task[t].op \in Tools
    /\ task[t].error # "none"

(***************************************************************************)
(* C13  For each of the six tools of app.py and each failure the store     *)
(* layer raises (initialization, date validation, the record store before  *)
(* or in the middle of the iteration), the tool propagates no exception    *)
(* and returns its empty shape, {} for a point lookup and [] for a scan,   *)
(* without the records collected before the failure.                       *)
(***************************************************************************)
C13_ErrorsBecomeEmpty ==
    \A t \in Tasks :
        /\ task[t].op \in Tools => task[t].result # "raised"
        /\ ToolFailed(t) =>
            /\ task[t].error \in StoreErrors
            /\ task[t].returned = "raised"
            /\ task[t].op \in PointLookups => task[t].result = "empty_dict"
            /\ task[t].op \notin PointLookups => task[t].result = "empty_list"

\* a scan failed after it had collected a record, and a lookup failed in
\* initialization
C13_Witness ==
    /\ ToolFailed(1) /\ task[1].op = "query_invoices"
    /\ task[1].error = "StoreError" /\ task[1].items > 0
    /\ task[1].result = "empty_list"
    /\ ToolFailed(2) /\ task[2].op = "get_vendor"
    /\ task[2].error \in InitErrors
    /\ task[2].result = "empty_dict"

\* the call of search took the server-side path, or the local one
ServerPath(s) == s.args.use_server_vectorizer /\ s.vectorizable
LocalPath(s) == ~ServerPath(s)

Called(s) == s.pc # "idle"
Ended(s) == s.pc = "done"

(***************************************************************************)
(* C14  No automatic retry: an invocation of a store operation or of a     *)
(* tool issues at most one query call, and a failure of the store leaves   *)
(* the store operation as an exception; a call of search issues at most    *)
(* one embedding call and at most one index request, whether it succeeds   *)
(* or fails.                                                               *)
(***************************************************************************)
C14_NoRetry ==
    /\ \A t \in Tasks :
        /\ task[t].queries <= 1
        /\ task[t].error # "none" =>
            /\ task[t].pc = "done"
            /\ task[t].returned = "raised"
    /\ Len(searched.embedded) <= 1
    /\ Len(searched.requests) <= 1
    /\ searched.error # "none" => Ended(searched) /\ searched.returned = "raised"

\* the record store failed after the one query of an operation was sent
C14_Witness ==
    /\ task[1].error = "StoreError"
    /\ task[1].queries = 1
    /\ task[1].items > 0
    /\ task[1].returned = "raised"

(***************************************************************************)
(* C15  Vectorizer fallback: with use_server_vectorizer=True, when the     *)
(* server-side query cannot be constructed the embedder is called exactly  *)
(* once, with [query], and the index request carries the vector it         *)
(* computed; when it can be constructed the embedder is not called; with   *)
(* use_server_vectorizer=False the construction is not attempted and the   *)
(* embedder is called exactly once.                                        *)
(***************************************************************************)
C15_Fallback ==
    Called(searched) =>
        LET a == searched.args
        IN /\ (a.use_server_vectorizer /\ ~searched.vectorizable) =>
                /\ searched.constructs = 1
                /\ searched.embedded = <<<<a.query>>>>
                /\ searched.embedding = "vectors" =>
                    /\ Len(searched.requests) = 1
                    /\ searched.requests[1].vector_queries =
                           <<RawVectorQuery(Embedding(a.query), a.top)>>
           /\ (a.use_server_vectorizer /\ searched.vectorizable) =>
                /\ searched.constructs = 1
                /\ searched.embedded = <<>>
                /\ Len(searched.requests) = 1
           /\ ~a.use_server_vectorizer =>
                /\ searched.constructs = 0
                /\ searched.embedded = <<<<a.query>>>>

\* a call that fell back and still returned the documents of the index
C15_Witness ==
    /\ Ended(searched)
    /\ searched.args.use_server_vectorizer
    /\ ~searched.vectorizable
    /\ FellBack(searched)
    /\ searched.returned = "list"
    /\ Len(searched.result) > 0
    /\ searched.requests[1].vector_queries[1].kind = "vector"

\* what a call is bound to do by its arguments and its collaborators alone
Determined(s) ==
    /\ s.constructs = IF s.args.use_server_vectorizer THEN 1 ELSE 0
    /\ Len(s.embedded) = IF ServerPath(s) THEN 0 ELSE 1
    /\ Len(s.requests) = IF LocalPath(s) /\ s.embedding # "vectors" THEN 0 ELSE 1
    /\ Ended(s) =>
        s.returned = IF Len(s.requests) = 1 /\ s.reply.k = "ok" THEN "list"
                     ELSE "raised"

(***************************************************************************)
(* C16  The fallback is per call: no step of search changes the wrapper,   *)
(* so a call with use_server_vectorizer=True attempts the server-side      *)
(* path whatever the calls before it did, and what a call does is fixed by *)
(* its own arguments and by what its collaborators answer.                 *)
(***************************************************************************)
C16_PerCall ==
    [][index' = index]_vars
        /\ [](index = NewIndex /\ (Called(searched) => Determined(searched)))

\* the call before fell back; this one took the server-side path
C16_Witness ==
    /\ history.fell_back
    /\ Ended(searched)
    /\ searched.args.use_server_vectorizer
    /\ searched.constructs = 1
    /\ searched.embedded = <<>>
    /\ searched.returned = "list"

(***************************************************************************)
(* C17  search never answers a failure with an empty list: when the        *)
(* embedding call fails, directly or after a fallback, or the index        *)
(* fails, search raises; it returns [] only when the index answered the    *)
(* one request with no document.                                           *)
(***************************************************************************)
C17_NoMasking ==
    Ended(searched) =>
        /\ (LocalPath(searched) /\ searched.embedding # "vectors") =>
                searched.returned = "raised" /\ searched.result = <<>>
        /\ searched.reply.k \in {"raise", "breaks"} =>
                searched.returned = "raised" /\ searched.result = <<>>
        /\ (searched.returned = "list" /\ searched.result = <<>>) =>
                /\ Len(searched.requests) = 1
                /\ searched.reply = [k |-> "ok", docs |-> <<>>]

\* the index failed after it had yielded a document
C17_Witness ==
    /\ Ended(searched)
    /\ searched.reply.k = "breaks"
    /\ Len(searched.reply.docs) > 0
    /\ searched.returned = "raised"
    /\ searched.error = "HttpResponseError"

\* the OData string literal of a value: quotes around it, each quote of the
\* value doubled
Literal(v) == Quote \o StrReplace(v, Quote, Quote \o Quote) \o Quote

\* the filter that compares the field engagement_id with the value, and
\* no filter when there is no value
EqualityFilter(engagement_id) ==
    IF Truthy(engagement_id)
    THEN SomeStr(<<"e", "n", "g", "a", "g", "e", "m", "e", "n", "t", "_", "i", "d", " ", "e", "q", " ">> \o Literal(engagement_id.v))
    ELSE NoneStr

\* exactly one vector query, on content_vector, with k = top
OneVectorQuery(s) ==
    LET vq == s.requests[1].vector_queries
    IN /\ Len(vq) = 1
       /\ vq[1].fields = "content_vector"
       /\ vq[1].k = s.args.top
       /\ \/ vq[1].kind = "text" /\ vq[1].text = s.args.query
                                 /\ vq[1].vector = NoVector
          \/ vq[1].kind = "vector" /\ vq[1].vector = Embedding(s.args.query)
                                   /\ vq[1].vectorizer = ""

(***************************************************************************)
(* C18  As claimed: a successful search issued exactly one request, which  *)
(* carries the query text, exactly one vector query on content_vector      *)
(* with k = top, the cap top, and a filter that is the equality on         *)
(* engagement_id for a non-empty engagement_id and absent for None or ''.  *)
(***************************************************************************)
C18_OneRequest ==
    (Ended(searched) /\ searched.returned = "list") =>
        /\ Len(searched.requests) = 1
        /\ searched.requests[1].search_text = searched.args.query
        /\ searched.requests[1].top = searched.args.top
        /\ OneVectorQuery(searched)
        /\ searched.requests[1].filter = EqualityFilter(searched.args.engagement_id)

\* the index field a result key is read from
FieldOf(key) == IF key = "score" THEN "@search.score" ELSE key

(***************************************************************************)
(* C19  The results are one per document the index yielded, in its order,  *)
(* none dropped, merged or moved, each with exactly the eight keys id,     *)
(* doc_type, engagement_id, policy_id, section, effective_date, content    *)
(* and score; a field the document lacks is None in the result, and the    *)
(* call still returns.                                                     *)
(***************************************************************************)
C19_Projection ==
    Ended(searched) =>
        /\ (Len(searched.requests) = 1 /\ searched.reply.k = "ok") =>
                searched.returned = "list"
        /\ searched.returned = "list" =>
            /\ Len(searched.result) = Len(searched.reply.docs)
            /\ \A i \in 1..Len(searched.result) :
                /\ DOMAIN searched.result[i] =
                       {"id", "doc_type", "engagement_id", "policy_id",
                        "section", "effective_date", "content", "score"}
                /\ \A key \in DOMAIN searched.result[i] :
                    searched.result[i][key] =
                        IF FieldOf(key) \in DOMAIN searched.reply.docs[i]
                        THEN SomeStr(searched.reply.docs[i][FieldOf(key)])
                        ELSE NoneStr

\* a document lacking seven of the fields came first, a whole one after it
C19_Witness ==
    /\ Ended(searched)
    /\ searched.returned = "list"
    /\ Len(searched.result) = 2
    /\ searched.reply.docs[1] = Doc(2, {"id", "content_vector"})
    /\ searched.reply.docs[2] = Doc(1, IndexFields)
    /\ searched.result[1]["id"] = SomeStr(<<"id", 2>>)
    /\ searched.result[1]["section"] = NoneStr
    /\ searched.result[1]["score"] = NoneStr
    /\ searched.result[2]["score"] = SomeStr(<<"@search.score", 1>>)

(***************************************************************************)
(* C20  As claimed: in every state of the store, also after a step of      *)
(* _ensure_client has failed, _client being set implies _database is set.  *)
(***************************************************************************)
C20_NeverHalfBuilt ==
    client # 0 => database # 0

====
